---- MODULE Spec2Model ----
(***************************************************************************)
(* Product catalog API: the products table with its unique index on        *)
(* sku_lower, the upsert statement, the CSV import job with its in-memory  *)
(* job_status map, the upload and status endpoints, the product CRUD       *)
(* endpoints and the webhook endpoints.                                    *)
(*                                                                         *)
(* Text is a sequence of one-character strings ("" is << >>), so that      *)
(* str.lower(), str.strip() and float() are computed, not assumed.         *)
(* Python None / SQL NULL of a text value is the one-element sequence      *)
(* None, whose element is no character; of a price or a flag it is << >>   *)
(* and a present value v is << v >>.                                       *)
(***************************************************************************)
EXTENDS Integers, Sequences, FiniteSets, TLC

VARIABLES
    products,    \* the committed rows of table "products", in insertion (id) order
    job_status,  \* tasks.job_status: job_id -> [status, progress, message]
    job,         \* per job_id: the import_csv invocation (file, position, session)
    lastPoll,    \* what the last GET /job_status/{job_id} returned
    upserted,    \* the ProductCreate values handed to upsert_product so far (history)
    snapshot,    \* the table as it was when the current file was first uploaded / re-uploaded
    webhooks,    \* table "webhooks": [rows, last_id], last_id the serial id last given out
    response,    \* what the last product or webhook request returned: [op, target, status]
    clock        \* the storage server's now(), a logical time; it passes between the
                 \* calls of the upsert specification

vars == <<products, job_status, job, lastPoll, upserted, snapshot, webhooks,
          response, clock>>

----------------------------------------------------------------------------
(* Bounds of the model. *)

\* longest file (data lines after the header) the sequential import specification uploads
MaxRows == 3
\* longest file the pipeline and catalog specifications upload
MaxLines == 2
\* longest file of the two racing jobs
MaxRaceLines == 2
\* number of upsert_product calls of the upsert specification
MaxUpserts == 2
\* number of webhook subscriptions ever created
MaxWebhooks == 1
\* longest file of the header specification
MaxHeaderLines == 2

\* tasks.py:101 commits every 500 processed rows; the model commits every
\* BatchSize rows so that a batch commit happens within MaxRows rows.
BatchSize == 2

----------------------------------------------------------------------------
(* Text. *)

None == <<"None">>
NoValue == << >>

Whitespace == {" ", "\t"}
DigitSeq == <<"0", "1", "2", "3", "4", "5", "6", "7", "8", "9">>
Digits == {DigitSeq[i] : i \in DOMAIN DigitSeq}

UpperCase == <<"A","B","C","D","E","F","G","H","I","J","K","L","M",
               "N","O","P","Q","R","S","T","U","V","W","X","Y","Z">>
LowerCase == <<"a","b","c","d","e","f","g","h","i","j","k","l","m",
               "n","o","p","q","r","s","t","u","v","w","x","y","z">>

LowerChar(c) ==
    IF \E i \in DOMAIN UpperCase : UpperCase[i] = c
    THEN LowerCase[CHOOSE i \in DOMAIN UpperCase : UpperCase[i] = c]
    ELSE c

\* str.lower()
Lower(s) == [i \in 1..Len(s) |-> LowerChar(s[i])]

RECURSIVE LStrip(_)
LStrip(s) ==
    IF s # << >> /\ Head(s) \in Whitespace THEN LStrip(Tail(s)) ELSE s

RECURSIVE RStrip(_)
RStrip(s) ==
    IF s # << >> /\ s[Len(s)] \in Whitespace
    THEN RStrip(SubSeq(s, 1, Len(s) - 1))
    ELSE s

\* str.strip()
Strip(s) == RStrip(LStrip(s))

\* Python truthiness of a DictReader cell: None and "" are falsy
Truthy(cell) == cell # None /\ cell # << >>

DigitVal(c) == (CHOOSE i \in DOMAIN DigitSeq : DigitSeq[i] = c) - 1

RECURSIVE DigitsVal(_)
DigitsVal(s) ==
    IF s = << >> THEN 0
    ELSE 10 * DigitsVal(SubSeq(s, 1, Len(s) - 1)) + DigitVal(s[Len(s)])

\* float(s) succeeds on the decimal literals  d+ | d+.d* | d*.d+  (surrounding
\* whitespace allowed); it raises ValueError on "", on "$5", on "abc".
\* (Exponents, signs, inf and nan are outside the model's alphabet.)
IsFloatLiteral(s) ==
    LET t == Strip(s)
        dots == {i \in DOMAIN t : t[i] = "."}
    IN  /\ t # << >>
        /\ \A i \in DOMAIN t : t[i] \in Digits \cup {"."}
        /\ Cardinality(dots) <= 1
        /\ \E i \in DOMAIN t : t[i] \in Digits

\* The value float(s) takes in column price, Numeric(10, 2): in hundredths,
\* rounded half up on the third fractional digit.
FloatCents(s) ==
    LET t == Strip(s)
        dots == {i \in DOMAIN t : t[i] = "."}
        dot == IF dots = {} THEN Len(t) + 1 ELSE CHOOSE i \in dots : TRUE
        whole == SubSeq(t, 1, dot - 1)
        frac == SubSeq(t, dot + 1, Len(t))
        d(k) == IF k <= Len(frac) THEN DigitVal(frac[k]) ELSE 0
    IN  100 * DigitsVal(whole) + 10 * d(1) + d(2) + (IF d(3) >= 5 THEN 1 ELSE 0)

----------------------------------------------------------------------------
(* Table "products" (models.Product) and the upsert statement.            *)
(* A table is the sequence of its rows in insertion order, which is the   *)
(* order of the serial id; the id itself is read by no operation.         *)

\* ProductCreate(sku, name, description, price, active): active is << >>
\* (None) or << b >>
ProductCreate(sku, name, description, price, active) ==
    [sku |-> sku, name |-> name, description |-> description,
     price |-> price, active |-> active]

\* "active=product.active if product.active is not None else True"
ActiveOrTrue(p) == IF p.active = NoValue THEN TRUE ELSE p.active[1]

\* the column values of Product(...) / insert(Product).values(...); created_at
\* and updated_at take their server_default now()
ProductRow(p) ==
    [sku |-> p.sku, sku_lower |-> Lower(p.sku), name |-> p.name,
     description |-> p.description, price |-> p.price,
     active |-> ActiveOrTrue(p), created_at |-> clock, updated_at |-> clock]

\* the rows of tbl a unique index on sku_lower finds for key
UqSkuLowerMutNotUnique(tbl, key) == {}
UqSkuLower(tbl, key) == {i \in DOMAIN tbl : tbl[i].sku_lower = key}

\* "set_=update_cols": name, description, price and active are overwritten
\* by the excluded (incoming) row; sku and sku_lower are not in update_cols.
\* Neither is updated_at: the column's onupdate is a default of the UPDATE
\* construct and this statement is an INSERT, whose DO UPDATE SET clause is
\* update_cols and nothing else.
OnConflictMutDoNothing(old, new) == old
OnConflictMutNameOnly(old, new) == [old EXCEPT !.name = new.name]
OnConflictDoUpdate(old, new) ==
    [old EXCEPT !.name = new.name, !.description = new.description,
                !.price = new.price, !.active = new.active]

\* INSERT ... ON CONFLICT (sku_lower) DO UPDATE SET ...: one statement
UpsertProductMutInsertOnly(tbl, p) == Append(tbl, ProductRow(p))
UpsertProduct(tbl, p) ==
    LET new == ProductRow(p)
        hit == UqSkuLower(tbl, new.sku_lower)
    IN  IF hit = {}
        THEN Append(tbl, new)
        ELSE [i \in DOMAIN tbl |->
                 IF i \in hit THEN OnConflictDoUpdate(tbl[i], new) ELSE tbl[i]]

\* the statements a session executed since its last commit, replayed on the
\* committed table: what the session sees, and what its commit writes
RECURSIVE ApplyLog(_, _)
ApplyLog(tbl, log) ==
    IF log = << >> THEN tbl
    ELSE ApplyLog(UpsertProduct(tbl, Head(log)), Tail(log))

RemoveAt(tbl, i) == SubSeq(tbl, 1, i - 1) \o SubSeq(tbl, i + 1, Len(tbl))

\* Query.first() of "filter(Product.sku == sku)": the first row in id order, 0 if none
FirstBySku(tbl, sku) ==
    IF \E i \in DOMAIN tbl : tbl[i].sku = sku
    THEN CHOOSE i \in DOMAIN tbl :
             tbl[i].sku = sku /\ \A k \in 1..(i - 1) : tbl[k].sku # sku
    ELSE 0

----------------------------------------------------------------------------
(* The uploaded CSV file, as csv.DictReader reads it.                     *)
(* A file is [header, rows]: the header line's column names and the data  *)
(* lines after it, each the sequence of its cells; << >> is a blank line. *)
(* The empty file has no header line.                                     *)

\* "sum(1 for _ in open(file_path, ...))": the number of lines of the file
CountLines(file) == (IF file.header = << >> THEN 0 ELSE 1) + Len(file.rows)

\* csv.DictReader: the row's dict, a missing trailing cell is None (restval)
DictRow(header, line) ==
    [k \in {header[i] : i \in DOMAIN header} |->
        LET i == CHOOSE n \in DOMAIN header : header[n] = k
        IN  IF i <= Len(line) THEN line[i] ELSE None]

\* dict.get(k): None when the key is absent
Get(row, k) == IF k \in DOMAIN row THEN row[k] ELSE None

\* Python "a or b"
Or(a, b) == IF Truthy(a) THEN a ELSE b

\* "sku = row.get("sku") or row.get("SKU")"
RowSku(row) == Or(Get(row, "sku"), Get(row, "SKU"))

\* "if not sku or not any(row.values()): continue"
SkipRowMutNeverSkip(row) == FALSE
SkipRow(row) ==
    \/ ~Truthy(RowSku(row))
    \/ ~(\E k \in DOMAIN row : Truthy(row[k]))

\* "float(row.get("price")) if row.get("price") else None" raises ValueError
PriceRaises(row) ==
    Truthy(Get(row, "price")) /\ ~IsFloatLiteral(Get(row, "price"))

RowPrice(row) ==
    IF Truthy(Get(row, "price")) THEN <<FloatCents(Get(row, "price"))>> ELSE NoValue

\* "ProductCreate(sku=sku.strip(), name=row.get("name"), ..., active=True)"
RowProduct(row) ==
    ProductCreate(Strip(RowSku(row)), Get(row, "name"), Get(row, "description"),
                  RowPrice(row), <<TRUE>>)

\* "int((processed / total) * 100)".  For the totals of this model the float
\* expression equals the integer floor (it differs first at 29/50 -> 57).
ProgressMutRemaining(processed, total) == ((total - processed) * 100) \div total
Progress(processed, total) == (processed * 100) \div total

----------------------------------------------------------------------------
(* tasks.job_status and the jobs.                                         *)

JobSeq == <<"j1", "j2">>
JobIds == {JobSeq[i] : i \in DOMAIN JobSeq}

StatusRecord(status, progress, message) ==
    [status |-> status, progress |-> progress, message |-> message]

Registered == StatusRecord("processing", 0, "Parsing CSV")
NotFound == StatusRecord("unknown", 0, "Job not found")

\* "job_status[job_id] = {...}": the dict entry is created or replaced
SetStatus(js, id, rec) ==
    [k \in DOMAIN js \cup {id} |-> IF k = id THEN rec ELSE js[k]]

\* "job_status.get(job_id, {...not found...})"
GetJobStatus(js, id) == IF id \in DOMAIN js THEN js[id] ELSE NotFound

NoFile == [header |-> << >>, rows |-> << >>]

\* table "webhooks" before any subscription was created
NoWebhooks == [rows |-> << >>, last_id |-> 0]

\* a job_id no upload has produced yet
IdleJob ==
    [pc |-> "idle", file |-> NoFile, file_exists |-> FALSE, total |-> 0,
     next |-> 1, processed |-> 0, pending |-> << >>, session |-> "none",
     outcome |-> "none"]

Range(seq) == {seq[i] : i \in DOMAIN seq}

\* the index keys a session's uncommitted statements hold locked
LockedKeys(j) == {Lower(p.sku) : p \in Range(job[j].pending)}

LockedByOther(j, key) == \E k \in JobIds \ {j} : key \in LockedKeys(k)

Locked(key) == \E k \in JobIds : key \in LockedKeys(k)

----------------------------------------------------------------------------
(* POST /upload and the background task import_csv(file_path, job_id).    *)

\* "job_status[job_id] = {"status": "processing", ...}" of upload_csv
UploadRegisterMutLater(js, id) == js
UploadRegister(js, id) == SetStatus(js, id, Registered)

\* uuid4() gives a fresh id: the ids are taken in the order of JobSeq
FreshId(j) ==
    /\ job[j].pc = "idle"
    /\ \A i, k \in DOMAIN JobSeq : (JobSeq[k] = j /\ i < k) => job[JobSeq[i]].pc # "idle"

\* upload_csv: save the file, register the job, queue the task, return job_id
UploadCsv(j, files) ==
    /\ FreshId(j)
    /\ \E file \in files :
          job' = [job EXCEPT ![j] = [IdleJob EXCEPT !.pc = "queued", !.file = file,
                                                     !.file_exists = TRUE]]
    /\ job_status' = UploadRegister(job_status, j)
    /\ UNCHANGED <<products, lastPoll, upserted, webhooks, response, clock>>

\* import_csv lines 63-72: publish "processing", open the session, count the lines
Launch(j) ==
    /\ job[j].pc = "queued"
    /\ job_status' = SetStatus(job_status, j, Registered)
    /\ job' = [job EXCEPT ![j].pc = "rows", ![j].session = "open",
                          ![j].total = CountLines(job[j].file) - 1,
                          ![j].processed = 0, ![j].next = 1]
    /\ UNCHANGED <<products, lastPoll, upserted, snapshot, webhooks, response, clock>>

AtRow(j) == job[j].pc = "rows" /\ job[j].next <= Len(job[j].file.rows)

CurrentLine(j) == job[j].file.rows[job[j].next]

CurrentRow(j) == DictRow(job[j].file.header, CurrentLine(j))

\* DictReader passes over a blank line; line 80 passes over a row to skip
SkipLine(j) ==
    /\ AtRow(j)
    /\ CurrentLine(j) = << >> \/ SkipRow(CurrentRow(j))
    /\ job' = [job EXCEPT ![j].next = @ + 1]
    /\ UNCHANGED <<products, job_status, lastPoll, upserted, snapshot, webhooks, response, clock>>

\* line 84 raises ValueError: control passes to the except clause
PriceError(j) ==
    /\ AtRow(j)
    /\ CurrentLine(j) # << >>
    /\ ~SkipRow(CurrentRow(j))
    /\ PriceRaises(CurrentRow(j))
    /\ job' = [job EXCEPT ![j].pc = "except"]
    /\ UNCHANGED <<products, job_status, lastPoll, upserted, snapshot, webhooks, response, clock>>

\* the row lines 84-98 are about to upsert
Importable(j) ==
    /\ AtRow(j)
    /\ CurrentLine(j) # << >>
    /\ ~SkipRow(CurrentRow(j))
    /\ ~PriceRaises(CurrentRow(j))

\* "job_status[job_id]["progress"] = ...": one field of the entry is assigned
SetProgress(js, id, value) == [js EXCEPT ![id].progress = value]

\* lines 84-98: build the product, execute the upsert in the job's open
\* transaction (the statement waits while another transaction holds the
\* index key), count the row, publish the progress
ImportRow(j) ==
    /\ Importable(j)
    /\ LET p == RowProduct(CurrentRow(j))
           n == job[j].processed + 1
       IN  /\ ~LockedByOther(j, Lower(p.sku))
           /\ job' = [job EXCEPT ![j].pending = Append(@, p),
                                 ![j].processed = n,
                                 ![j].next = @ + 1,
                                 ![j].pc = IF n % BatchSize = 0 THEN "batch" ELSE "rows"]
           /\ job_status' = SetProgress(job_status, j, Progress(n, job[j].total))
    /\ UNCHANGED <<products, lastPoll, upserted, snapshot, webhooks, response, clock>>

\* the job whose uncommitted statements hold the key job j's upsert waits for
WaitsFor(j) ==
    IF Importable(j)
    THEN {k \in JobIds \ {j} : Lower(RowProduct(CurrentRow(j)).sku) \in LockedKeys(k)}
    ELSE {}

RECURSIVE WaitChain(_, _)
WaitChain(from, n) ==
    IF n = 0 THEN from
    ELSE WaitChain(from \cup UNION {WaitsFor(k) : k \in from}, n - 1)

\* the storage engine ends a cycle of waiting transactions by failing one of
\* them: the upsert of job j raises, control passes to the except clause
DeadlockError(j) ==
    /\ Importable(j)
    /\ j \in WaitChain(WaitsFor(j), Cardinality(JobIds))
    /\ job' = [job EXCEPT ![j].pc = "except"]
    /\ UNCHANGED <<products, job_status, lastPoll, upserted, snapshot, webhooks, response, clock>>

\* db.commit(): the transaction's statements become the committed table
CommitMutNothing(j) == products' = products
Commit(j) ==
    /\ products' = ApplyLog(products, job[j].pending)

\* line 102: "if processed % 500 == 0: db.commit()"
BatchCommit(j) ==
    /\ job[j].pc = "batch"
    /\ Commit(j)
    /\ job' = [job EXCEPT ![j].pending = << >>, ![j].pc = "rows"]
    /\ UNCHANGED <<job_status, lastPoll, upserted, snapshot, webhooks, response, clock>>

\* line 105: the rows are exhausted, "db.commit()"
FinalCommit(j) ==
    /\ job[j].pc = "rows"
    /\ job[j].next > Len(job[j].file.rows)
    /\ Commit(j)
    /\ job' = [job EXCEPT ![j].pending = << >>, ![j].pc = "mark_status"]
    /\ UNCHANGED <<job_status, lastPoll, upserted, snapshot, webhooks, response, clock>>

\* line 108: "job_status[job_id]["status"] = "completed""
MarkCompleted(j) ==
    /\ job[j].pc = "mark_status"
    /\ job_status' = [job_status EXCEPT ![j].status = "completed"]
    /\ job' = [job EXCEPT ![j].pc = "mark_message"]
    /\ UNCHANGED <<products, lastPoll, upserted, snapshot, webhooks, response, clock>>

\* line 109: "job_status[job_id]["message"] = "Import complete""
MarkMessage(j) ==
    /\ job[j].pc = "mark_message"
    /\ job_status' = [job_status EXCEPT ![j].message = "Import complete"]
    /\ job' = [job EXCEPT ![j].pc = "finally", ![j].outcome = "returned"]
    /\ UNCHANGED <<products, lastPoll, upserted, snapshot, webhooks, response, clock>>

\* lines 111-114: the entry is replaced by the "unknown" record, then "raise"
Except(j) ==
    /\ job[j].pc = "except"
    /\ job_status' = SetStatus(job_status, j, NotFound)
    /\ job' = [job EXCEPT ![j].pc = "finally", ![j].outcome = "raised"]
    /\ UNCHANGED <<products, lastPoll, upserted, snapshot, webhooks, response, clock>>

\* lines 115-119: db.close() ends the session, its uncommitted statements are
\* rolled back; the uploaded file is removed
FinallyMutKeepFile(j) ==
    /\ job[j].pc = "finally"
    /\ job' = [job EXCEPT ![j].pc = "done", ![j].pending = << >>,
                          ![j].session = "closed"]
    /\ UNCHANGED <<products, job_status, lastPoll, upserted, snapshot, webhooks, response, clock>>
Finally(j) ==
    /\ job[j].pc = "finally"
    /\ job' = [job EXCEPT ![j].pc = "done", ![j].pending = << >>,
                          ![j].session = "closed", ![j].file_exists = FALSE]
    /\ UNCHANGED <<products, job_status, lastPoll, upserted, snapshot, webhooks, response, clock>>

\* the steps of import_csv on a row it imports
ImportSteps(j) ==
    \/ Launch(j)
    \/ PriceError(j)
    \/ ImportRow(j)
    \/ BatchCommit(j)
    \/ FinalCommit(j)
    \/ MarkCompleted(j)
    \/ MarkMessage(j)
    \/ Except(j)
    \/ Finally(j)

ImportCsv(j) == SkipLine(j) \/ ImportSteps(j)

\* GET /job_status/{job_id}.  issued: whether an upload had returned this id.
GetJobStatusRequest(id) ==
    /\ lastPoll' = [job_id |-> id,
                    issued |-> id \in JobIds /\ job[id].pc # "idle",
                    fallback |-> id \notin DOMAIN job_status,
                    body |-> GetJobStatus(job_status, id)]
    /\ UNCHANGED <<products, job_status, job, upserted, snapshot, webhooks, response, clock>>

----------------------------------------------------------------------------
(* The product endpoints of main.py.  Each is one transaction; a statement *)
(* that touches an index key another transaction holds waits for it.      *)

\* the outcome of a request: the handler, the path parameter (sku or webhook
\* id; for a create the sku of the body) and the HTTP status
Response(op, target, status) == [op |-> op, target |-> target, status |-> status]

NoResponse == Response("none", << >>, 0)

\* create_product: db.add + db.commit; the unique index uq_sku_lower rejects
\* a second row with the same sku_lower (IntegrityError, nothing is stored)
CreateProductTable(tbl, p) ==
    IF UqSkuLower(tbl, Lower(p.sku)) # {} THEN tbl ELSE Append(tbl, ProductRow(p))

\* 200 with the created row; the IntegrityError is not caught: 500
CreateProductStatus(tbl, p) ==
    IF UqSkuLower(tbl, Lower(p.sku)) # {} THEN 500 ELSE 200

CreateProduct(p) ==
    /\ ~Locked(Lower(p.sku))
    /\ products' = CreateProductTable(products, p)
    /\ response' = Response("create_product", p.sku, CreateProductStatus(products, p))
    /\ UNCHANGED <<job_status, job, lastPoll, upserted, snapshot, webhooks, clock>>

\* the row update_product writes: "data = product.dict(exclude_unset=True)",
\* "data["sku_lower"] = data["sku"].lower()", setattr for every key
UpdatedRow(old, body) ==
    [sku |-> body.sku, sku_lower |-> Lower(body.sku), name |-> body.name,
     description |-> body.description, price |-> body.price,
     active |-> IF body.active = NoValue THEN old.active ELSE body.active[1],
     created_at |-> old.created_at, updated_at |-> clock]

\* update_product: 404 when no row has this sku; the unique index rejects a
\* new sku_lower that another row has (IntegrityError, nothing is stored)
UpdateProductTableMutUpsert(tbl, sku, body) == Append(tbl, ProductRow(body))
UpdateProductTable(tbl, sku, body) ==
    LET i == FirstBySku(tbl, sku)
    IN  IF i = 0 THEN tbl
        ELSE IF UqSkuLower(RemoveAt(tbl, i), Lower(body.sku)) # {} THEN tbl
        ELSE [tbl EXCEPT ![i] = UpdatedRow(tbl[i], body)]

\* "raise HTTPException(status_code=404, ...)" when no row has this sku
UpdateProductStatus(tbl, sku, body) ==
    LET i == FirstBySku(tbl, sku)
    IN  IF i = 0 THEN 404
        ELSE IF UqSkuLower(RemoveAt(tbl, i), Lower(body.sku)) # {} THEN 500
        ELSE 200

UpdateProduct(sku, body) ==
    /\ LET i == FirstBySku(products, sku)
       IN  i # 0 => ~Locked(products[i].sku_lower) /\ ~Locked(Lower(body.sku))
    /\ products' = UpdateProductTable(products, sku, body)
    /\ response' = Response("update_product", sku, UpdateProductStatus(products, sku, body))
    /\ UNCHANGED <<job_status, job, lastPoll, upserted, snapshot, webhooks, clock>>

\* delete_product_by_sku: 404 when no row has this sku
DeleteProductTable(tbl, sku) ==
    LET i == FirstBySku(tbl, sku)
    IN  IF i = 0 THEN tbl ELSE RemoveAt(tbl, i)

DeleteProductStatus(tbl, sku) == IF FirstBySku(tbl, sku) = 0 THEN 404 ELSE 200

DeleteProductBySku(sku) ==
    /\ LET i == FirstBySku(products, sku)
       IN  i # 0 => ~Locked(products[i].sku_lower)
    /\ products' = DeleteProductTable(products, sku)
    /\ response' = Response("delete_product_by_sku", sku, DeleteProductStatus(products, sku))
    /\ UNCHANGED <<job_status, job, lastPoll, upserted, snapshot, webhooks, clock>>

\* delete_all_products: "db.query(Product).delete()" + commit
DeleteAllProducts ==
    /\ \A i \in DOMAIN products : ~Locked(products[i].sku_lower)
    /\ products' = << >>
    /\ response' = Response("delete_all_products", << >>, 200)
    /\ UNCHANGED <<job_status, job, lastPoll, upserted, snapshot, webhooks, clock>>

\* crud.upsert_product called on its own, the statement committed; the next
\* call comes at a later time
UpsertCall(p) ==
    /\ Len(upserted) < MaxUpserts
    /\ products' = UpsertProduct(products, p)
    /\ upserted' = Append(upserted, p)
    /\ clock' = clock + 1
    /\ UNCHANGED <<job_status, job, lastPoll, snapshot, webhooks, response>>

----------------------------------------------------------------------------
(* The webhook endpoints of webhook.py.  Table "webhooks" is [rows, last_id]: *)
(* the rows in id order and the serial id last given out (an id is not       *)
(* given out twice).                                                         *)

\* Query.first() of "filter(Webhook.id == webhook_id)": the row's index, 0 if none
FirstById(rows, id) ==
    IF \E i \in DOMAIN rows : rows[i].id = id
    THEN CHOOSE i \in DOMAIN rows : rows[i].id = id
    ELSE 0

\* "Webhook(**data)", db.add, db.commit
CreateWebhookTable(wh, body) ==
    [rows |-> Append(wh.rows,
                     [id |-> wh.last_id + 1, url |-> body.url,
                      event_types |-> body.event_types, active |-> body.active,
                      created_at |-> clock, updated_at |-> clock]),
     last_id |-> wh.last_id + 1]

CreateWebhook(body) ==
    /\ webhooks.last_id < MaxWebhooks
    /\ webhooks' = CreateWebhookTable(webhooks, body)
    /\ response' = Response("create_webhook", webhooks.last_id + 1, 200)
    /\ UNCHANGED <<products, job_status, job, lastPoll, upserted, snapshot, clock>>

\* "for key, value in webhook.dict(exclude_unset=True).items(): setattr(...)":
\* a field of the body is << >> when the request leaves it unset
PatchedWebhook(old, body) ==
    [id |-> old.id,
     url |-> IF body.url = << >> THEN old.url ELSE body.url[1],
     event_types |-> IF body.event_types = << >> THEN old.event_types
                     ELSE body.event_types[1],
     active |-> IF body.active = << >> THEN old.active ELSE body.active[1],
     created_at |-> old.created_at, updated_at |-> clock]

\* update_webhook: 404 when no row has this id
UpdateWebhookTable(wh, id, body) ==
    LET i == FirstById(wh.rows, id)
    IN  IF i = 0 THEN wh
        ELSE [wh EXCEPT !.rows[i] = PatchedWebhook(wh.rows[i], body)]

WebhookStatus(wh, id) == IF FirstById(wh.rows, id) = 0 THEN 404 ELSE 200

UpdateWebhook(id, body) ==
    /\ webhooks' = UpdateWebhookTable(webhooks, id, body)
    /\ response' = Response("update_webhook", id, WebhookStatus(webhooks, id))
    /\ UNCHANGED <<products, job_status, job, lastPoll, upserted, snapshot, clock>>

\* delete_webhook: 404 when no row has this id
DeleteWebhookTable(wh, id) ==
    LET i == FirstById(wh.rows, id)
    IN  IF i = 0 THEN wh ELSE [wh EXCEPT !.rows = RemoveAt(wh.rows, i)]

DeleteWebhook(id) ==
    /\ webhooks' = DeleteWebhookTable(webhooks, id)
    /\ response' = Response("delete_webhook", id, WebhookStatus(webhooks, id))
    /\ UNCHANGED <<products, job_status, job, lastPoll, upserted, snapshot, clock>>

\* test_webhook: 404 when no row has this id; otherwise the test payload is
\* posted to the row's url and the endpoint answers (200 with its reply) or
\* the request fails (httpx.RequestError: 400)
TestWebhookStatus(wh, id, answered) ==
    IF FirstById(wh.rows, id) = 0 THEN 404
    ELSE IF answered THEN 200 ELSE 400

TestWebhook(id, answered) ==
    /\ response' = Response("test_webhook", id, TestWebhookStatus(webhooks, id, answered))
    /\ UNCHANGED <<products, job_status, job, lastPoll, upserted, snapshot, webhooks, clock>>

----------------------------------------------------------------------------
(* Inputs. *)

SkuA1 == <<"A", "1">>
Skua1 == <<"a", "1">>
SkuB2 == <<"B", "2">>
SkuPadded == <<" ", "a", "1">>
SkuBlank == <<" ">>
Empty == << >>
Widget == <<"W">>
Widget2 == <<"W", "2">>
Ignore == <<"I">>
Descr == <<"d">>
Price999 == <<"9", ".", "9", "9">>
Price1250 == <<"1", "2", ".", "5", "0">>
Price5 == <<"5">>
PriceDollar == <<"$", "5">>

Header == <<"sku", "name", "description", "price">>
HeaderUpper == <<"SKU", "NAME", "DESCRIPTION", "PRICE">>
HeaderTitle == <<"Sku", "Name", "Description", "Price">>

LineA1 == <<SkuA1, Widget, Empty, Price999>>
LineNoSku == <<Empty, Ignore, Empty, Price5>>
Linea1 == <<Skua1, Widget2, Descr, Price1250>>
LineB2Only == <<SkuB2>>
LineBlank == << >>
LineBadPrice == <<SkuB2, Widget, Empty, PriceDollar>>
LinePadded == <<SkuPadded, Ignore, Descr, Empty>>
LineBlankSku == <<SkuBlank, Widget, Empty, Empty>>
\* the line "B2,,,": a SKU and three empty cells
LineB2Empty == <<SkuB2, Empty, Empty, Empty>>

\* the sequences over set S of length at most n
RECURSIVE SeqsUpTo(_, _)
SeqsUpTo(S, n) ==
    IF n = 0 THEN {<< >>}
    ELSE LET shorter == SeqsUpTo(S, n - 1)
         IN  shorter \cup {Append(q, x) : q \in shorter, x \in S}

EmptyFile == NoFile
FilesOver(lines, n) ==
    {EmptyFile} \cup {[header |-> Header, rows |-> r] : r \in SeqsUpTo(lines, n)}

\* files whose header line is written in one of three casings
HeaderFiles ==
    {[header |-> h, rows |-> r] :
        h \in {Header, HeaderUpper, HeaderTitle},
        r \in SeqsUpTo({LineA1, Linea1, LineBadPrice}, MaxHeaderLines)}

\* the files an upload brings, per specification
MainFiles == FilesOver({LineA1, LineNoSku, LineBadPrice}, MaxLines)
ImportFiles ==
    FilesOver({LineA1, LineNoSku, Linea1, LineB2Only, LineBlank, LineBadPrice,
               LinePadded, LineBlankSku, LineB2Empty}, MaxRows)
CatalogFiles == FilesOver({LineA1, Linea1, LineNoSku, LineBadPrice}, MaxLines)
RaceFiles == FilesOver({LineA1, Linea1, LineB2Only, LineBadPrice}, MaxRaceLines)

\* request bodies of POST /products and PUT /products/{sku}
Bodies ==
    {ProductCreate(SkuA1, Widget, None, <<999>>, <<FALSE>>),
     ProductCreate(Skua1, Widget2, Descr, NoValue, NoValue),
     ProductCreate(SkuB2, None, None, NoValue, <<TRUE>>)}

PathSkus == {SkuA1, Skua1, SkuB2}

\* the ids the pollers ask for: a job's id, and an id no upload ever returns
PollIds == {"j1", "never-issued"}

\* the products upsert_product is called with on its own
UpsertInputs ==
    {ProductCreate(sku, name, None, price, active) :
        sku \in {SkuA1, Skua1, SkuPadded, SkuB2}, name \in {Widget, Widget2},
        price \in {NoValue, <<999>>}, active \in {NoValue, <<FALSE>>}}

\* request bodies of POST /webhooks
WebhookBodies ==
    {[url |-> "https://a.example/hook", event_types |-> <<"product.imported">>,
      active |-> TRUE],
     [url |-> "https://b.example/hook", event_types |-> << >>, active |-> FALSE]}

\* request bodies of PUT /webhooks/{webhook_id}
WebhookUpdates ==
    {[url |-> << >>, event_types |-> << >>, active |-> <<FALSE>>],
     [url |-> <<"https://b.example/hook">>,
      event_types |-> << <<"product.updated">> >>, active |-> << >>]}

\* the ids webhook requests name: every id given out, and one never given out
WebhookIds == 1..(MaxWebhooks + 1)

\* the catalog an import starts from
StartCatalogs ==
    {<< >>,
     <<ProductRow(ProductCreate(Skua1, Ignore, None, <<500>>, <<FALSE>>))>>}

----------------------------------------------------------------------------
(* Specifications. *)

NoPoll == [job_id |-> "", issued |-> FALSE, fallback |-> TRUE, body |-> NotFound]

\* the state after construction: empty table, "job_status = {}", no upload yet
Init ==
    /\ clock = 0
    /\ webhooks = NoWebhooks
    /\ response = NoResponse
    /\ products = << >>
    /\ job_status = << >>
    /\ job = [j \in JobIds |-> IdleJob]
    /\ lastPoll = NoPoll
    /\ upserted = << >>
    /\ snapshot = << >>

\* the import pipeline: uploads, the jobs they start, status polls
Next ==
    \/ \E j \in JobIds : UploadCsv(j, MainFiles) /\ UNCHANGED snapshot
    \/ \E j \in JobIds : ImportCsv(j)
    \/ \E id \in PollIds : GetJobStatusRequest(id)

Spec == Init /\ [][Next]_vars

\* the catalog: product requests and an import job
NextCatalog ==
    \/ UploadCsv("j1", CatalogFiles) /\ UNCHANGED snapshot
    \/ ImportCsv("j1")
    \/ \E p \in Bodies : CreateProduct(p)
    \/ \E sku \in PathSkus, body \in Bodies : UpdateProduct(sku, body)
    \/ \E sku \in PathSkus : DeleteProductBySku(sku)
    \/ DeleteAllProducts

SpecCatalog == Init /\ [][NextCatalog]_vars

\* the job of an uploaded file that held the header line only, after import_csv
\* returned
FinishedJob ==
    [pc |-> "done", file |-> [header |-> Header, rows |-> << >>],
     file_exists |-> FALSE, total |-> 0, next |-> 1, processed |-> 0,
     pending |-> << >>, session |-> "closed", outcome |-> "returned"]

\* a catalog, and the status entry of one finished import job
InitRequests ==
    /\ clock = 0
    /\ webhooks = NoWebhooks
    /\ response = NoResponse
    /\ products \in StartCatalogs
    /\ job = [j \in JobIds |-> IF j = "j1" THEN FinishedJob ELSE IdleJob]
    /\ job_status = SetStatus(<< >>, "j1", StatusRecord("completed", 0, "Import complete"))
    /\ lastPoll = NoPoll
    /\ upserted = << >>
    /\ snapshot = products

\* the product and webhook requests that name their target by sku or id
NextRequests ==
    \/ \E p \in Bodies : CreateProduct(p)
    \/ \E sku \in PathSkus, body \in Bodies : UpdateProduct(sku, body)
    \/ \E sku \in PathSkus : DeleteProductBySku(sku)
    \/ \E body \in WebhookBodies : CreateWebhook(body)
    \/ \E id \in WebhookIds, body \in WebhookUpdates : UpdateWebhook(id, body)
    \/ \E id \in WebhookIds : DeleteWebhook(id)
    \/ \E id \in WebhookIds, answered \in BOOLEAN : TestWebhook(id, answered)

SpecRequests == InitRequests /\ [][NextRequests]_vars

\* upsert_product on its own, from the empty table
NextUpsert == \E p \in UpsertInputs : UpsertCall(p)

SpecUpsert == Init /\ [][NextUpsert]_vars

\* one file imported, and then the same file uploaded and imported again
ReUpload ==
    /\ job["j1"].pc = "done"
    /\ UploadCsv("j2", {job["j1"].file})
    /\ snapshot' = products

InitImport ==
    /\ clock = 0
    /\ webhooks = NoWebhooks
    /\ response = NoResponse
    /\ products \in StartCatalogs
    /\ job_status = << >>
    /\ job = [j \in JobIds |-> IdleJob]
    /\ lastPoll = NoPoll
    /\ upserted = << >>
    /\ snapshot = products

NextImport ==
    \/ UploadCsv("j1", ImportFiles) /\ UNCHANGED snapshot
    \/ \E j \in JobIds : ImportCsv(j)
    \/ ReUpload

SpecImport == InitImport /\ [][NextImport]_vars

\* one file imported, its header line in any casing
NextHeaders ==
    \/ UploadCsv("j1", HeaderFiles) /\ UNCHANGED snapshot
    \/ ImportCsv("j1")

SpecHeaders == InitImport /\ [][NextHeaders]_vars

\* two uploads have returned, their jobs are queued and run concurrently
QueuedJob(file) ==
    [IdleJob EXCEPT !.pc = "queued", !.file = file, !.file_exists = TRUE]

InitRace ==
    /\ clock = 0
    /\ webhooks = NoWebhooks
    /\ response = NoResponse
    /\ products = << >>
    /\ \E f1, f2 \in RaceFiles :
          job = [j \in JobIds |-> QueuedJob(IF j = "j1" THEN f1 ELSE f2)]
    /\ job_status = [j \in JobIds |-> Registered]
    /\ lastPoll = NoPoll
    /\ upserted = << >>
    /\ snapshot = << >>

\* (the racing files hold no line to skip)
NextRace == \E j \in JobIds : ImportSteps(j) \/ DeadlockError(j)

SpecRace == InitRace /\ [][NextRace]_vars

----------------------------------------------------------------------------
(* Claims. *)

\* what the claims call the normalized SKU of a SKU as written: lower(trim(sku))
NormalizedSku(sku) == Lower(Strip(sku))

RowsWithSkuLower(tbl, key) == {i \in DOMAIN tbl : tbl[i].sku_lower = key}

\* C1: in every reachable state of the catalog under product create, update,
\* delete, delete-all and import jobs (whose rows are upserted), no two stored
\* product records have the same sku_lower; the same holds of the table as the
\* import job's open transaction sees it.
C1_UniqueNormalizedSku ==
    /\ \A i, k \in DOMAIN products :
          i # k => products[i].sku_lower # products[k].sku_lower
    /\ \A j \in JobIds :
          LET view == ApplyLog(products, job[j].pending)
          IN  \A i, k \in DOMAIN view : i # k => view[i].sku_lower # view[k].sku_lower

\* two records are stored, and the one created as "A1" carries the name and
\* description only the import line with sku "a1" has: an upsert hit it
C1_Witness ==
    /\ Len(products) = 2
    /\ \E i \in DOMAIN products :
          /\ products[i].sku = SkuA1
          /\ products[i].name = Widget2
          /\ products[i].description = Descr

FirstWithKey(key) ==
    CHOOSE n \in DOMAIN upserted :
        Lower(upserted[n].sku) = key /\ \A m \in 1..(n - 1) : Lower(upserted[m].sku) # key

LastWithKey(key) ==
    CHOOSE n \in DOMAIN upserted :
        Lower(upserted[n].sku) = key
        /\ \A m \in (n + 1)..Len(upserted) : Lower(upserted[m].sku) # key

\* C2 as stated: after upserting s1 and then s2 with lower(trim(s1)) =
\* lower(trim(s2)) from the empty catalog, exactly one stored record has that
\* normalized SKU and its sku is s2.
C2_LastCasingWins ==
    (Len(upserted) = 2
     /\ NormalizedSku(upserted[1].sku) = NormalizedSku(upserted[2].sku))
    => LET hit == {i \in DOMAIN products :
                      NormalizedSku(products[i].sku) = NormalizedSku(upserted[2].sku)}
       IN  /\ Cardinality(hit) = 1
           /\ \A i \in hit : products[i].sku = upserted[2].sku

\* C2 amended: after any sequence of upserts from the empty catalog, for every
\* upserted SKU s exactly one stored record has sku_lower = lower(s) (no trim);
\* its sku is the casing of the first upsert with that key, and its name,
\* description, price and active are those of the last upsert with that key.
C2_FirstCasingLastFields ==
    \A n \in DOMAIN upserted :
        LET key == Lower(upserted[n].sku)
            first == upserted[FirstWithKey(key)]
            last == upserted[LastWithKey(key)]
            hit == RowsWithSkuLower(products, key)
        IN  /\ Cardinality(hit) = 1
            /\ \A i \in hit :
                  /\ products[i].sku = first.sku
                  /\ products[i].name = last.name
                  /\ products[i].description = last.description
                  /\ products[i].price = last.price
                  /\ products[i].active = ActiveOrTrue(last)

\* "A1" was upserted and then "a1" with another name: one record is stored
C2_Witness ==
    /\ Len(upserted) = 2
    /\ upserted[1].sku = SkuA1
    /\ upserted[2].sku = Skua1
    /\ upserted[1].name # upserted[2].name
    /\ Len(products) = 1

\* the columns the import writes, of a stored row
Fields(r) ==
    [name |-> r.name, description |-> r.description, price |-> r.price,
     active |-> r.active]

SameRecords(t1, t2) ==
    \A i \in DOMAIN t1 :
        \E k \in DOMAIN t2 :
            t2[k].sku_lower = t1[i].sku_lower /\ Fields(t2[k]) = Fields(t1[i])

\* C3: a file was imported until its job ended (completed or failed) and the
\* same file imported again until that job ended: the catalog has as many
\* rows as after the first import, and every normalized SKU has the same
\* name, description, price and active as after the first import.
C3_ImportIdempotent ==
    job["j2"].pc = "done"
    => /\ Len(products) = Len(snapshot)
       /\ SameRecords(products, snapshot)
       /\ SameRecords(snapshot, products)

\* the second import of a file ended that upserted twice and left two records
C3_Witness ==
    /\ job["j2"].pc = "done"
    /\ job["j2"].processed >= 2
    /\ Len(products) = 2

\* the data lines of job j's file the claims count as not skipped: not blank,
\* and the SKU cell is neither absent nor empty
NotSkipped(j) ==
    {n \in DOMAIN job[j].file.rows :
        LET line == job[j].file.rows[n]
        IN  /\ line # << >>
            /\ line[1] # Empty}

LineKey(j, n) == NormalizedSku(job[j].file.rows[n][1])

LastLineWithKey(j, key) ==
    CHOOSE n \in NotSkipped(j) :
        LineKey(j, n) = key /\ \A m \in NotSkipped(j) : LineKey(j, m) = key => m <= n

\* C10: after a completed import (one job, from the starting catalog),
\* for every normalized SKU of a non-skipped line exactly one record is stored
\* and its name, price and active are those of the last such line of the file;
\* every stored record was in the starting catalog or has the normalized SKU of
\* a non-skipped line; processed is the number of non-skipped lines.
C10_FileOrderAndSkips ==
    (job["j1"].pc = "done" /\ job_status["j1"].status = "completed"
     /\ job["j2"].pc = "idle")
    => /\ job["j1"].processed = Cardinality(NotSkipped("j1"))
       /\ \A n \in NotSkipped("j1") :
             LET key == LineKey("j1", n)
                 last == DictRow(job["j1"].file.header,
                                 job["j1"].file.rows[LastLineWithKey("j1", key)])
                 hit == RowsWithSkuLower(products, key)
             IN  /\ Cardinality(hit) = 1
                 /\ \A i \in hit :
                       /\ products[i].name = Get(last, "name")
                       /\ products[i].price = RowPrice(last)
                       /\ products[i].active = TRUE
       /\ \A i \in DOMAIN products :
             \/ \E k \in DOMAIN snapshot : snapshot[k].sku_lower = products[i].sku_lower
             \/ \E n \in NotSkipped("j1") : LineKey("j1", n) = products[i].sku_lower

\* the file A1/Widget/9.99, (empty)/Ignore/5, a1/Widget2/12.50 was imported
\* into the empty catalog: one product a1, Widget2, 12.50, active
C10_Witness ==
    /\ job["j1"].pc = "done"
    /\ job["j2"].pc = "idle"
    /\ job_status["j1"].status = "completed"
    /\ job["j1"].file.rows = <<LineA1, LineNoSku, Linea1>>
    /\ snapshot = << >>
    /\ Len(products) = 1
    /\ products[1].sku_lower = Skua1
    /\ products[1].name = Widget2
    /\ products[1].price = <<1250>>
    /\ products[1].active = TRUE
    /\ job["j1"].processed = 2

\* C4 as stated: over every step, from registration at upload to the terminal
\* state (completed or failed), the progress stored for a job_id does not
\* decrease.
C4_ProgressNeverDecreases ==
    [][\A id \in DOMAIN job_status :
          job_status'[id].progress >= job_status[id].progress]_vars

\* C4 amended: the progress stored for a job_id does not decrease over any
\* step that leaves the entry's status other than "unknown": from registration
\* through every row update to completion.  (The except clause replaces the
\* entry by the "unknown" record, whose progress is 0.)
C4_ProgressMonotoneUntilFailure ==
    [][\A id \in DOMAIN job_status :
          job_status'[id].status # "unknown"
          => job_status'[id].progress >= job_status[id].progress]_vars

\* a job imported two rows (progress 50, then 100) and completed
C4_Witness ==
    \E j \in JobIds :
        /\ job[j].pc = "done"
        /\ job[j].processed = 2
        /\ job_status[j].status = "completed"
        /\ job_status[j].progress = 100

\* C5: a job's stored progress is 100 if and only if its status is completed.
C5_ProgressHundredIffCompleted ==
    \A id \in DOMAIN job_status :
        job_status[id].progress = 100 <=> job_status[id].status = "completed"

\* the message import_csv and upload_csv publish with each status
MessageOf(status) ==
    CASE status = "processing" -> "Parsing CSV"
      [] status = "completed" -> "Import complete"
      [] OTHER -> "Job not found"

\* C6: the record a status poll returns is one the job published whole: its
\* message is the message published with its status (never "completed" with
\* "Parsing CSV").
C6_PollSeesWholeRecord == lastPoll.body.message = MessageOf(lastPoll.body.status)

\* C7: once the entry of a job is completed or failed ("unknown"), no step
\* changes its status, progress or message.
C7_TerminalEntryNeverChanges ==
    [][\A id \in DOMAIN job_status :
          job_status[id].status \in {"completed", "unknown"}
          => job_status'[id] = job_status[id]]_vars

\* C8: every job_id an upload has returned has an entry in job_status from
\* then on; a poll with an issued id gets the entry, a poll with an id not
\* issued gets the not-found default; and no poll changes job_status.
C8_IssuedIdHasEntry ==
    /\ [](/\ \A j \in JobIds : job[j].pc # "idle" => j \in DOMAIN job_status
          /\ lastPoll.issued => ~lastPoll.fallback
          /\ lastPoll.fallback => lastPoll.body = NotFound)
    /\ [][lastPoll' # lastPoll => job_status' = job_status]_vars

\* a poll made between the upload's return and the launch of the job got the
\* registered entry
C8_Witness ==
    /\ job["j1"].pc = "queued"
    /\ lastPoll.job_id = "j1"
    /\ lastPoll.issued
    /\ ~lastPoll.fallback
    /\ lastPoll.body = Registered

\* the lines of job j's file with normalized SKU key that the job can upsert
LinesWithKey(j, key) ==
    {n \in NotSkipped(j) :
        /\ LineKey(j, n) = key
        /\ ~PriceRaises(DictRow(job[j].file.header, job[j].file.rows[n]))}

\* the normalized SKUs for which both files have a line the job can upsert
SharedKeys ==
    {key \in {LineKey("j1", n) : n \in NotSkipped("j1")} :
        LinesWithKey("j1", key) # {} /\ LinesWithKey("j2", key) # {}}

\* the record's name, description, price and active are those of one line
FromOneLine(r, key) ==
    \E j \in JobIds :
        \E n \in LinesWithKey(j, key) :
            Fields(r) = Fields(ProductRow(RowProduct(
                            DictRow(job[j].file.header, job[j].file.rows[n]))))

BothDone == \A j \in JobIds : job[j].pc = "done"

SkuOnly(line) ==
    /\ line # << >>
    /\ Truthy(line[1])
    /\ \A c \in 2..Len(line) : line[c] = Empty

\* C11: after a completed import (one job), every line that supplies a SKU and
\* leaves every other column empty was imported, and if it is the last line of
\* the file with its normalized SKU the stored record has name null,
\* description null, price null and active true.
C11_SkuOnlyRowStoresNulls ==
    (job["j1"].pc = "done" /\ job_status["j1"].status = "completed"
     /\ job["j2"].pc = "idle")
    => \A n \in NotSkipped("j1") :
           (SkuOnly(job["j1"].file.rows[n])
            /\ LastLineWithKey("j1", LineKey("j1", n)) = n)
           => LET hit == RowsWithSkuLower(products, LineKey("j1", n))
              IN  /\ hit # {}
                  /\ \A i \in hit :
                        /\ products[i].name = None
                        /\ products[i].description = None
                        /\ products[i].price = NoValue
                        /\ products[i].active = TRUE

\* the products import_csv upserts from these data lines, in order, up to the
\* first line whose price raises
RECURSIVE UpsertsOf(_, _)
UpsertsOf(header, rows) ==
    IF rows = << >> THEN << >>
    ELSE IF Head(rows) = << >> \/ SkipRow(DictRow(header, Head(rows)))
         THEN UpsertsOf(header, Tail(rows))
    ELSE IF PriceRaises(DictRow(header, Head(rows))) THEN << >>
    ELSE <<RowProduct(DictRow(header, Head(rows)))>> \o UpsertsOf(header, Tail(rows))

C15_ExitClosesSessionAndRemovesFile ==
    \A j \in JobIds :
        /\ job[j].pc = "done" => job[j].session = "closed" /\ ~job[j].file_exists
        /\ job[j].pc \in {"queued", "rows", "batch"} => job[j].file_exists

\* one job has raised and one has returned, the call of each is over
C15_Witness ==
    /\ job["j1"].pc = "done" /\ job["j1"].outcome = "raised"
    /\ job["j2"].pc = "done" /\ job["j2"].outcome = "returned"
    /\ \A j \in JobIds : ~job[j].file_exists /\ job[j].session = "closed"

\* C12: a PUT or DELETE /products/{sku} whose sku no stored product has, and a
\* PUT, DELETE or test of a webhook id no stored subscription has, returns
\* 404; and every request that returns 404 leaves the product table, the
\* webhook table and job_status as they were.
C12_AbsentTargetIs404 ==
    [][LET r == response'
       IN  /\ (r.op \in {"update_product", "delete_product_by_sku"}
               /\ FirstBySku(products, r.target) = 0) => r.status = 404
           /\ (r.op \in {"update_webhook", "delete_webhook", "test_webhook"}
               /\ FirstById(webhooks.rows, r.target) = 0) => r.status = 404
           /\ r.status = 404
              => /\ products' = products
                 /\ webhooks' = webhooks
                 /\ job_status' = job_status]_vars

\* PUT /products/B2 returned 404 while the catalog holds other products, a
\* subscription is stored and job_status holds an entry
C12_Witness ==
    /\ response = Response("update_product", SkuB2, 404)
    /\ products # << >>
    /\ webhooks.rows # << >>
    /\ DOMAIN job_status # {}

\* the all-lowercase spelling of the header names of the input files
LowerName(name) ==
    CASE name \in {"sku", "SKU", "Sku"} -> "sku"
      [] name \in {"name", "NAME", "Name"} -> "name"
      [] name \in {"description", "DESCRIPTION", "Description"} -> "description"
      [] name \in {"price", "PRICE", "Price"} -> "price"
      [] OTHER -> name

LowerHeader(header) == [i \in DOMAIN header |-> LowerName(header[i])]

\* whether the import of these data lines meets a line whose price raises
RaisesIn(header, rows) ==
    \E n \in DOMAIN rows :
        /\ rows[n] # << >>
        /\ ~SkipRow(DictRow(header, rows[n]))
        /\ PriceRaises(DictRow(header, rows[n]))

\* the catalog an import of the file leaves when it starts from tbl: every
\* upsert when no line raises, the committed batches when one does
ImportResult(tbl, header, rows) ==
    LET ups == UpsertsOf(header, rows)
    IN  IF RaisesIn(header, rows)
        THEN ApplyLog(tbl, SubSeq(ups, 1, BatchSize * (Len(ups) \div BatchSize)))
        ELSE ApplyLog(tbl, ups)

\* C14: when the import of a file has ended, whatever the casing of the header
\* names sku, name, description and price, the catalog is the one the import
\* of the same file with all-lowercase header names leaves.
C14_HeaderCaseInsensitive ==
    job["j1"].pc = "done"
    => products = ImportResult(snapshot, LowerHeader(job["j1"].file.header),
                               job["j1"].file.rows)

\* C16: over every upsert_product call that hits a stored record (one with the
\* sku_lower of the upserted product), the record's created_at stays as it
\* was and its updated_at becomes strictly later than it was.
C16_UpdatePathRefreshesUpdatedAt ==
    [][upserted' # upserted
       => LET p == upserted'[Len(upserted')]
          IN  \A i \in RowsWithSkuLower(products, Lower(p.sku)) :
                  /\ products'[i].created_at = products[i].created_at
                  /\ products'[i].updated_at > products[i].updated_at]_vars

====
